---- MODULE Spec2Model ----
(***************************************************************************)
(* Response Refinement extension (src/index.js): the settings object, the  *)
(* settings-UI handlers that mutate it, and the sequential refinement      *)
(* pipeline refineResponse driven by the MESSAGE_RECEIVED handler.         *)
(*                                                                         *)
(* Strings are sequences of one-character strings, so that trim() and      *)
(* concatenation are computed.  A JavaScript object with string keys is a  *)
(* sequence of <<key, value>> pairs in property (insertion) order.  Step   *)
(* objects live in a heap, because Object.entries() hands out references   *)
(* that a suspended run keeps while the UI replaces or mutates steps.      *)
(***************************************************************************)
EXTENDS Integers, Sequences, FiniteSets, TLC

(***************************************************************************)
(* Bounds of the model.                                                    *)
(***************************************************************************)
MaxUiEvents == 2      \* settings-UI events per behaviour
MaxClock    == 1      \* Date.now() ranges over 0..MaxClock
MaxPopups   == 1      \* add-instruction popups open at once
MaxRuns     == 2      \* message / refine invocations per behaviour

RunIds == 1..MaxRuns

(***************************************************************************)
(* Strings.                                                                *)
(***************************************************************************)
Space == " "

Separator == "\n\n"

\* the characters String.prototype.trim removes
IsWhitespace(c) == c \in {Space, Separator}

RECURSIVE trimStart(_)
trimStart(s) ==
    IF s = <<>> THEN <<>>
    ELSE IF IsWhitespace(Head(s)) THEN trimStart(Tail(s)) ELSE s

RECURSIVE trimEnd(_)
trimEnd(s) ==
    IF s = <<>> THEN <<>>
    ELSE IF IsWhitespace(s[Len(s)]) THEN trimEnd(SubSeq(s, 1, Len(s) - 1)) ELSE s

\* String.prototype.trim
trim(s) == trimEnd(trimStart(s))

\* Array.prototype.join(sep) over an array of strings
RECURSIVE join(_, _)
join(parts, sep) ==
    IF parts = <<>> THEN <<>>
    ELSE IF Len(parts) = 1 THEN parts[1]
    ELSE parts[1] \o sep \o join(Tail(parts), sep)

Range(s) == {s[i] : i \in 1..Len(s)}

(***************************************************************************)
(* JavaScript objects with (non-integer) string keys: property order is    *)
(* insertion order; assigning an existing key keeps its place.             *)
(***************************************************************************)
objKeys(o) == [i \in 1..Len(o) |-> o[i][1]]

objHas(o, k) == \E i \in 1..Len(o) : o[i][1] = k

objGet(o, k) == o[CHOOSE i \in 1..Len(o) : o[i][1] = k][2]

objDelete(o, k) == LET notK(e) == e[1] # k IN SelectSeq(o, notK)

\* assignment that drops the key and adds it again, as last
objSet_Reinsert(o, k, v) == Append(objDelete(o, k), <<k, v>>)

objSet(o, k, v) ==
    IF objHas(o, k)
    THEN [i \in 1..Len(o) |-> IF o[i][1] = k THEN <<k, v>> ELSE o[i]]
    ELSE Append(o, <<k, v>>)

\* Object.entries / Object.values
objEntries(o) == o

objValues(o) == [i \in 1..Len(o) |-> o[i][2]]

(***************************************************************************)
(* Built-in defaults.  The literal instruction texts are abstracted to one *)
(* token each; labels and flags are the source's.                          *)
(***************************************************************************)
Block(l, c, e) == [label |-> l, content |-> c, enabled |-> e]

Ref(i, e) == [id |-> i, enabled |-> e]

Step(l, e, ins) == [label |-> l, enabled |-> e, instructions |-> ins]

defaultInstructionBlocks ==
    << <<"review_response",      Block("Review Response",      <<"review">>,    TRUE)>>,
       <<"enhance_response",     Block("Enhance Response",     <<"enhance">>,   TRUE)>>,
       <<"ensure_coherency",     Block("Ensure Coherency",     <<"coherency">>, TRUE)>>,
       <<"ensure_compliance",    Block("Ensure Compliance",    <<"comply">>,    TRUE)>>,
       <<"ensure_user_autonomy", Block("Ensure User Autonomy", <<"autonomy">>,  FALSE)>>,
       <<"enhance_detail",       Block("Enhance Detail",       <<"detail">>,    TRUE)>>,
       <<"enhance_disgust",      Block("Enhance Disgust",      <<"disgust">>,   TRUE)>> >>

defaultRefinementSteps ==
    << <<"cohesion_check",
         Step("Cohesion Check", TRUE,
              << Ref("review_response", TRUE), Ref("ensure_coherency", TRUE),
                 Ref("ensure_compliance", TRUE), Ref("ensure_user_autonomy", FALSE) >>)>>,
       <<"improve_detail",
         Step("Improve Detail", TRUE,
              << Ref("enhance_response", TRUE), Ref("enhance_detail", TRUE),
                 Ref("enhance_disgust", TRUE) >>)>> >>

defaultSettings ==
    [enabled |-> TRUE,
     instructionBlocks |-> defaultInstructionBlocks,
     refinementSteps |-> defaultRefinementSteps]

(***************************************************************************)
(* Persisted settings the host may hand to loadSettings: none, the empty   *)
(* object, or a configuration saved by an earlier session.  The saved ones *)
(* here are the defaults after the user deleted five blocks, with the      *)
(* master switch, the first step's flag and the first block's content as   *)
(* the user left them.                                                     *)
(***************************************************************************)
NoSettings == [absent |-> TRUE]

EmptyObject == [empty |-> TRUE]

savedSettings(on, firstOn, content) ==
    [enabled |-> on,
     instructionBlocks |->
        << <<"review_response", Block("Review Response", content, TRUE)>>,
           <<"enhance_detail",  Block("Enhance Detail",  <<"detail">>, TRUE)>> >>,
     refinementSteps |->
        << <<"cohesion_check",
             Step("Cohesion Check", firstOn, << Ref("review_response", TRUE) >>)>>,
           <<"improve_detail",
             Step("Improve Detail", TRUE, << Ref("enhance_detail", TRUE) >>)>> >>]

\* a saved object that carries only some of the fields
partialSettings == [enabled |-> TRUE]

\* a saved object whose collections are there and hold nothing: the user
\* deleted every step (every block too, when `noBlocks`)
emptiedSettings(noBlocks) ==
    [enabled |-> TRUE,
     instructionBlocks |->
        IF noBlocks THEN <<>>
        ELSE << <<"review_response", Block("Review Response", <<"review">>, TRUE)>> >>,
     refinementSteps |-> <<>>]

\* the value of a property that is not there
Undefined == <<"undefined">>

field(obj, name) == IF name \in DOMAIN obj THEN obj[name] ELSE Undefined

\* loads every saved object as if nothing had been saved
loadSettings_AlwaysDefaults(saved) == defaultSettings

\* loadSettings: extension_settings[extensionName] after the function ran
loadSettings(saved) ==
    IF saved = NoSettings \/ saved = EmptyObject
    THEN defaultSettings
    ELSE saved

VARIABLES
    persisted,          \* history: extension_settings[extensionName] before the load
    enabled,            \* extensionSettings.enabled
    instructionBlocks,  \* extensionSettings.instructionBlocks
    refinementSteps,    \* extensionSettings.refinementSteps: <<key, heap address>>
    heap,               \* the step objects
    popups,             \* open "Select Instruction Block" popups
    now,                \* Date.now()
    uiEvents,           \* settings-UI events so far
    stepDom,            \* per rendered step item: its .step-instruction-item list
    insertedAt,         \* history: step key -> serial number of its insertion
    indicator,          \* the #refinement_status element
    runs                \* the invocations of the message handler / refineResponse

vars == <<persisted, enabled, instructionBlocks, refinementSteps, heap, popups, now,
          uiEvents, stepDom, insertedAt, indicator, runs>>

settingsVars == <<enabled, instructionBlocks, refinementSteps, heap, popups,
                  stepDom, insertedAt>>

(***************************************************************************)
(* The heap of step objects.                                               *)
(***************************************************************************)
newAddress(h) ==
    CHOOSE a \in 1..(Cardinality(DOMAIN h) + 1) :
        a \notin DOMAIN h /\ \A b \in 1..(a - 1) : b \in DOMAIN h

heapPut(h, a, obj) == [x \in DOMAIN h \cup {a} |-> IF x = a THEN obj ELSE h[x]]

\* objects no longer referenced by the settings or by a run are collected
collect(h, steps, rs) ==
    LET live == (IF steps = Undefined THEN {}
                 ELSE {steps[i][2] : i \in 1..Len(steps)}) \cup
                UNION {{rs[r].entries[i][2] : i \in 1..Len(rs[r].entries)} : r \in RunIds}
    IN [a \in DOMAIN h \cap live |-> h[a]]

\* renderRefinementSteps: the instruction items drawn for every step
renderRefinementSteps(steps, h, blocks) ==
    LET drawn(ref) == objHas(blocks, ref.id) IN
    [k \in Range(objKeys(steps)) |-> SelectSeq(h[objGet(steps, k)].instructions, drawn)]

idleRun ==
    [pc |-> "idle", kind |-> "none", message |-> <<>>, response |-> <<>>,
     currentResponse |-> <<>>, entries |-> <<>>, idx |-> 0, stepCount |-> 0,
     currentStep |-> 0, calls |-> <<>>, toasts |-> <<>>,
     outcomes |-> <<>>, result |-> <<>>, skipped |-> FALSE,
     input |-> <<>>, masterAtStart |-> FALSE, serials |-> <<>>, plan |-> <<>>,
     uiAtStart |-> 0, uiAtEnd |-> 0]

InitFrom(saved) ==
    LET s == loadSettings(saved)
        steps == field(s, "refinementSteps")
        n == IF steps = Undefined THEN 0 ELSE Len(steps)
    IN
    /\ persisted = saved
    /\ enabled = s.enabled
    /\ instructionBlocks = field(s, "instructionBlocks")
    /\ refinementSteps = IF steps = Undefined THEN Undefined
                         ELSE [i \in 1..n |-> <<steps[i][1], i>>]
    /\ heap = [i \in 1..n |-> steps[i][2]]
    /\ insertedAt = [k \in {steps[i][1] : i \in 1..n} |->
                        CHOOSE i \in 1..n : steps[i][1] = k]
    \* renderRefinementSteps throws on a missing collection: nothing is drawn
    /\ stepDom = IF steps = Undefined \/ instructionBlocks = Undefined THEN <<>>
                 ELSE renderRefinementSteps(refinementSteps, heap, instructionBlocks)
    /\ popups = <<>>
    /\ now = 0
    /\ uiEvents = 0
    /\ indicator = [visible |-> FALSE, text |-> <<>>]
    /\ runs = [r \in RunIds |-> idleRun]

Init == InitFrom(savedSettings(TRUE, TRUE, <<"review">>))

(***************************************************************************)
(* Settings-UI handlers.  Each is one event-loop task.                     *)
(***************************************************************************)
Contents == {<<>>, <<Space>>, <<"x">>}     \* what the user types as block content

StepLabels == {"Zzz"}                      \* what the user types as step label

UiEvent == uiEvents < MaxUiEvents /\ uiEvents' = uiEvents + 1 /\ UNCHANGED persisted

\* Date.now() between two events: the clock stands still or advances
Tick ==
    /\ now < MaxClock
    /\ now' = now + 1
    /\ UNCHANGED <<persisted, settingsVars, uiEvents, indicator, runs>>

onEnableChange ==
    /\ UiEvent
    /\ enabled' = ~enabled
    /\ UNCHANGED <<instructionBlocks, refinementSteps, heap, popups, stepDom,
                   insertedAt, now, indicator, runs>>

\* the user changed one input of the block item `id`; the handler stores all three
onInstructionBlockChange(id) ==
    /\ UiEvent
    /\ objHas(instructionBlocks, id)
    /\ LET old == objGet(instructionBlocks, id) IN
       \E new \in {Block(old.label, old.content, ~old.enabled)} \cup
                  {Block(old.label, c, old.enabled) : c \in Contents \ {old.content}} :
           instructionBlocks' = objSet(instructionBlocks, id, new)
    /\ UNCHANGED <<enabled, refinementSteps, heap, popups, stepDom, insertedAt,
                   now, indicator, runs>>

toggleRef(refs, j) == [refs EXCEPT ![j].enabled = ~@]

\* the user changed one input of the step item `id`; the handler stores a new
\* step object built from the item's inputs
onRefinementStepChange(id) ==
    /\ UiEvent
    /\ objHas(refinementSteps, id)
    /\ LET old == heap[objGet(refinementSteps, id)]
           dom == stepDom[id]
           a   == newAddress(heap)
       IN \E new \in {Step(old.label, ~old.enabled, dom)} \cup
                     {Step(l, old.enabled, dom) : l \in StepLabels \ {old.label}} \cup
                     {Step(old.label, old.enabled, toggleRef(dom, j)) : j \in 1..Len(dom)} :
            /\ refinementSteps' = objSet(refinementSteps, id, a)
            /\ heap' = collect(heapPut(heap, a, new), refinementSteps', runs)
            /\ stepDom' = [stepDom EXCEPT ![id] = new.instructions]
    /\ UNCHANGED <<enabled, instructionBlocks, popups, insertedAt, now, indicator, runs>>

\* the largest serial number handed out to a step still stored
latest(serials) ==
    IF DOMAIN serials = {} THEN 0
    ELSE CHOOSE n \in {serials[k] : k \in DOMAIN serials} :
             \A k \in DOMAIN serials : serials[k] <= n

customId(t) == "custom_" \o ToString(t)

addNewInstructionBlock ==
    /\ UiEvent
    /\ instructionBlocks' = objSet(instructionBlocks, customId(now),
                                   Block("New Instruction Block", <<>>, TRUE))
    /\ UNCHANGED <<enabled, refinementSteps, heap, popups, stepDom, insertedAt,
                   now, indicator, runs>>

addNewRefinementStep ==
    /\ UiEvent
    /\ LET a == newAddress(heap) IN
       /\ refinementSteps' = objSet(refinementSteps, customId(now), a)
       /\ heap' = collect(heapPut(heap, a, Step("New Step", TRUE, <<>>)),
                          refinementSteps', runs)
    /\ stepDom' = renderRefinementSteps(refinementSteps', heap', instructionBlocks)
    /\ insertedAt' = [k \in DOMAIN insertedAt \cup {customId(now)} |->
                        IF k = customId(now) THEN latest(insertedAt) + 1
                        ELSE insertedAt[k]]
    /\ UNCHANGED <<enabled, instructionBlocks, popups, now, indicator, runs>>

deleteInstructionBlock(id) ==
    /\ UiEvent
    /\ objHas(instructionBlocks, id)
    /\ instructionBlocks' = objDelete(instructionBlocks, id)
    /\ LET notId(ref) == ref.id # id
           stored == Range(objValues(refinementSteps))
       IN heap' = [a \in DOMAIN heap |->
                     IF a \in stored
                     THEN [heap[a] EXCEPT !.instructions = SelectSeq(@, notId)]
                     ELSE heap[a]]
    /\ stepDom' = renderRefinementSteps(refinementSteps, heap', instructionBlocks')
    /\ UNCHANGED <<enabled, refinementSteps, popups, insertedAt, now, indicator, runs>>

deleteRefinementStep(id) ==
    /\ UiEvent
    /\ objHas(refinementSteps, id)
    /\ refinementSteps' = objDelete(refinementSteps, id)
    /\ heap' = collect(heap, refinementSteps', runs)
    /\ stepDom' = renderRefinementSteps(refinementSteps', heap', instructionBlocks)
    /\ insertedAt' = [k \in DOMAIN insertedAt \ {id} |-> insertedAt[k]]
    /\ UNCHANGED <<enabled, instructionBlocks, popups, now, indicator, runs>>

\* the options of the popup's <select>: the blocks the step does not list yet
selectOptions(stepId) ==
    LET listed == {ref.id : ref \in Range(heap[objGet(refinementSteps, stepId)].instructions)}
        free(e) == e[1] \notin listed
    IN objKeys(SelectSeq(objEntries(instructionBlocks), free))

addInstructionToStep(stepId) ==
    /\ UiEvent
    /\ objHas(refinementSteps, stepId)
    /\ Len(popups) < MaxPopups
    /\ popups' = IF selectOptions(stepId) = <<>>
                 THEN popups          \* toastr.info, no popup
                 ELSE Append(popups, [stepId |-> stepId, options |-> selectOptions(stepId)])
    /\ UNCHANGED <<enabled, instructionBlocks, refinementSteps, heap, stepDom,
                   insertedAt, now, indicator, runs>>

removeAt(s, i) == SubSeq(s, 1, i - 1) \o SubSeq(s, i + 1, Len(s))

\* click on "Add" of popup p, with `selectedId` chosen in the <select>; when the
\* step is gone the handler throws before anything is changed.  The two
\* buttons of a popup are bounded by the popups opened, not by MaxUiEvents.
popupAdd(p) ==
    /\ UNCHANGED <<uiEvents, persisted>>
    /\ p \in 1..Len(popups)
    /\ \E selectedId \in Range(popups[p].options) :
         LET stepId == popups[p].stepId IN
         IF objHas(refinementSteps, stepId)
         THEN /\ heap' = [heap EXCEPT ![objGet(refinementSteps, stepId)].instructions =
                                          Append(@, Ref(selectedId, TRUE))]
              /\ stepDom' = renderRefinementSteps(refinementSteps, heap', instructionBlocks)
              /\ popups' = removeAt(popups, p)
         ELSE UNCHANGED <<heap, stepDom, popups>>
    /\ UNCHANGED <<enabled, instructionBlocks, refinementSteps, insertedAt, now,
                   indicator, runs>>

popupCancel(p) ==
    /\ UNCHANGED <<uiEvents, persisted>>
    /\ p \in 1..Len(popups)
    /\ popups' = removeAt(popups, p)
    /\ UNCHANGED <<enabled, instructionBlocks, refinementSteps, heap, stepDom,
                   insertedAt, now, indicator, runs>>

(***************************************************************************)
(* refineResponse.  The text between two awaits runs as one step: a run    *)
(* is suspended only at `await generateQuietPrompt(...)`.                  *)
(***************************************************************************)
SystemHead == "You are a response refinement agent. Your task is to refine the following response according to these instructions:\n\n"

SystemTail == "\n\nProvide your refined version of the response, or return the original if it already meets all requirements."

OriginalHead == "\n\nOriginal response:\n"

\* a filter that looks at the reference's flag only, not at the block's
combineInstructions_AnyBlock(step, blocks) ==
    LET on(inst) == /\ inst.enabled
                    /\ objHas(blocks, inst.id)
        kept == SelectSeq(step.instructions, on)
    IN join([i \in 1..Len(kept) |-> objGet(blocks, kept[i].id).content], <<Separator>>)

\* lines 191-194: the enabled instructions of the step, joined
combineInstructions(step, blocks) ==
    LET on(inst) == /\ inst.enabled
                    /\ objHas(blocks, inst.id)
                    /\ objGet(blocks, inst.id).enabled
        kept == SelectSeq(step.instructions, on)
    IN join([i \in 1..Len(kept) |-> objGet(blocks, kept[i].id).content], <<Separator>>)

\* line 196: `!instructions`
isFalsy(str) == str = <<>>

\* line 204
systemMessage(instructions) == <<SystemHead>> \o instructions \o <<SystemTail>>

\* a prompt built on the text the run was given, not on its working text
buildPrompt_FromInput(run, instructions) ==
    systemMessage(instructions) \o <<OriginalHead>> \o run.response

\* lines 209-211: the argument of generateQuietPrompt
buildPrompt(run, instructions) ==
    systemMessage(instructions) \o <<OriginalHead>> \o run.currentResponse

\* line 175
\* a total that counts every stored step, enabled or not
countEnabled_All(steps, h) == Len(steps)

countEnabled(steps, h) ==
    Cardinality({i \in 1..Len(steps) : h[steps[i][2]].enabled})

statusText(run, step) ==
    <<"Refining response: Step", run.currentStep, run.stepCount, step.label>>

\* a handler that computes the refined text and never stores it
handlerResume_NoWrite(run) == run

\* lines 417-432 after `await refineResponse(...)`: the handler writes the payload
handlerResume(run) ==
    IF run.kind = "event" /\ run.result # run.message
    THEN [run EXCEPT !.message = run.result]
    ELSE run

\* a return that reports a refinement whether or not the text changed
refineReturn_AlwaysReports(run) ==
    LET done == [run EXCEPT !.pc = "done",
                            !.result = run.currentResponse,
                            !.toasts = Append(@, [kind |-> "success",
                                                  text |-> "Response has been refined"])]
    IN [run |-> handlerResume(done), indicator |-> [visible |-> FALSE, text |-> <<>>]]

\* lines 225-233, then the caller's continuation
refineReturn(run) ==
    LET changed == run.currentResponse # run.response
        done == [run EXCEPT !.pc = "done",
                            !.result = run.currentResponse,
                            !.toasts = IF changed
                                       THEN Append(@, [kind |-> "success",
                                                       text |-> "Response has been refined"])
                                       ELSE @]
    IN [run |-> handlerResume(done), indicator |-> [visible |-> FALSE, text |-> <<>>]]

\* a loop that looks at the master switch again before every step
RECURSIVE refineLoop_Cancellable(_, _, _)
refineLoop_Cancellable(run, ind, i) ==
    IF i > Len(run.entries) \/ ~enabled THEN refineReturn([run EXCEPT !.idx = i])
    ELSE LET step == heap[run.entries[i][2]] IN
         IF ~step.enabled THEN refineLoop_Cancellable(run, ind, i + 1)
         ELSE LET counted == [run EXCEPT !.currentStep = @ + 1]
                  shown == [visible |-> TRUE, text |-> statusText(counted, step)]
                  instructions == combineInstructions(step, instructionBlocks)
              IN IF isFalsy(instructions) THEN refineLoop_Cancellable(counted, shown, i + 1)
                 ELSE LET prompt == buildPrompt(counted, instructions) IN
                      [run |-> [counted EXCEPT
                                   !.pc = "awaiting", !.idx = i,
                                   !.calls = Append(@, [idx |-> i,
                                                        stepId |-> run.entries[i][1],
                                                        prompt |-> prompt])],
                       indicator |-> shown]

\* lines 180-223 from entry i on, up to the next await or the return
RECURSIVE refineLoop(_, _, _)
refineLoop(run, ind, i) ==
    IF i > Len(run.entries) THEN refineReturn([run EXCEPT !.idx = i])
    ELSE LET step == heap[run.entries[i][2]] IN
         IF ~step.enabled THEN refineLoop(run, ind, i + 1)
         ELSE LET counted == [run EXCEPT !.currentStep = @ + 1]
                  shown == [visible |-> TRUE, text |-> statusText(counted, step)]
                  instructions == combineInstructions(step, instructionBlocks)
              IN IF isFalsy(instructions) THEN refineLoop(counted, shown, i + 1)
                 ELSE LET prompt == buildPrompt(counted, instructions) IN
                      [run |-> [counted EXCEPT
                                   !.pc = "awaiting", !.idx = i,
                                   !.calls = Append(@, [idx |-> i,
                                                        stepId |-> run.entries[i][1],
                                                        prompt |-> prompt])],
                       indicator |-> shown]

\* refineResponse without its check of the master switch
refineResponse_NoGuard(run, response) ==
    refineLoop([run EXCEPT !.response = response,
                           !.currentResponse = response,
                           !.entries = objEntries(refinementSteps),
                           !.stepCount = countEnabled(refinementSteps, heap),
                           !.currentStep = 0],
               indicator, 1)

\* lines 164-178: refineResponse(response) up to its first await or its return
refineResponse(run, response) ==
    IF ~enabled
    THEN [run |-> handlerResume([run EXCEPT !.pc = "done", !.response = response,
                                            !.currentResponse = response,
                                            !.result = response]),
          indicator |-> indicator]
    ELSE IF refinementSteps = Undefined
    THEN \* line 175: Object.values(undefined) is a TypeError
         [run |-> [run EXCEPT !.pc = "threw", !.response = response,
                              !.currentResponse = response],
          indicator |-> indicator]
    ELSE refineLoop([run EXCEPT !.response = response,
                                !.currentResponse = response,
                                !.entries = objEntries(refinementSteps),
                                !.stepCount = countEnabled(refinementSteps, heap),
                                !.currentStep = 0],
                    indicator, 1)

\* lines 417-425: the MESSAGE_RECEIVED handler up to its first suspension
onMessageReceived(run, message) ==
    IF ~enabled
    THEN [run |-> [run EXCEPT !.pc = "done", !.kind = "event", !.message = message,
                              !.skipped = TRUE],
          indicator |-> indicator]
    ELSE refineResponse([run EXCEPT !.kind = "event", !.message = message], message)

\* the returned text stored as it came, untrimmed
onGenerated_NoTrim(run, refinedResponse) ==
    IF /\ refinedResponse.kind = "string"
       /\ ~isFalsy(refinedResponse.text)
       /\ ~isFalsy(trim(refinedResponse.text))
    THEN [run EXCEPT !.currentResponse = refinedResponse.text,
                     !.outcomes = Append(@, refinedResponse)]
    ELSE [run EXCEPT !.outcomes = Append(@, refinedResponse)]

\* lines 213-218: the value of the await arrived
onGenerated(run, refinedResponse) ==
    IF /\ refinedResponse.kind = "string"
       /\ ~isFalsy(refinedResponse.text)
       /\ ~isFalsy(trim(refinedResponse.text))
    THEN [run EXCEPT !.currentResponse = trim(refinedResponse.text),
                     !.outcomes = Append(@, refinedResponse)]
    ELSE [run EXCEPT !.outcomes = Append(@, refinedResponse)]

\* no catch block: the rejection leaves refineResponse
onGenerationError_Uncaught(run, ind) ==
    [run |-> [run EXCEPT !.pc = "threw",
                         !.outcomes = Append(@, [kind |-> "error", text |-> <<>>])],
     indicator |-> ind]

\* a catch block after which the failed step is tried again
onGenerationError_Retry(run, ind) ==
    refineLoop([run EXCEPT !.outcomes = Append(@, [kind |-> "error", text |-> <<>>]),
                           !.toasts = Append(@, [kind |-> "error",
                                                 text |-> heap[run.entries[run.idx][2]].label])],
               ind, run.idx)

\* lines 219-222: the await threw; the catch block, then the loop goes on
onGenerationError(run, ind) ==
    refineLoop([run EXCEPT !.outcomes = Append(@, [kind |-> "error", text |-> <<>>]),
                           !.toasts = Append(@, [kind |-> "error",
                                                 text |-> heap[run.entries[run.idx][2]].label])],
               ind, run.idx + 1)

(***************************************************************************)
(* History kept with each run, for the properties: the input, and the      *)
(* configuration as it stood when the run started.                         *)
(***************************************************************************)
planOf(entries) ==
    [i \in 1..Len(entries) |->
        [enabled |-> heap[entries[i][2]].enabled,
         instructions |-> combineInstructions(heap[entries[i][2]], instructionBlocks)]]

withHistory(ctx, input) ==
    [ctx EXCEPT !.run.input = input,
                !.run.masterAtStart = enabled,
                !.run.serials = insertedAt,
                !.run.plan = IF refinementSteps = Undefined THEN <<>>
                             ELSE planOf(objEntries(refinementSteps)),
                !.run.uiAtStart = uiEvents]

Commit(r, ctx) ==
    /\ runs' = [runs EXCEPT ![r] = IF ctx.run.pc \in {"done", "threw"}
                                   THEN [ctx.run EXCEPT !.uiAtEnd = uiEvents]
                                   ELSE ctx.run]
    /\ indicator' = ctx.indicator
    /\ heap' = collect(heap, refinementSteps, runs')
    /\ UNCHANGED <<persisted, enabled, instructionBlocks, refinementSteps, popups,
                   stepDom, insertedAt, now, uiEvents>>

MessageReceived(r, texts) ==
    /\ runs[r].pc = "idle"
    /\ \A q \in 1..(r - 1) : runs[q].pc # "idle"
    /\ \E message \in texts :
          Commit(r, withHistory(onMessageReceived(runs[r], message), message))

RefineCalled(r, texts) ==
    /\ runs[r].pc = "idle"
    /\ \A q \in 1..(r - 1) : runs[q].pc # "idle"
    /\ \E response \in texts :
          Commit(r, withHistory(refineResponse([runs[r] EXCEPT !.kind = "direct"],
                                               response), response))

\* what generateQuietPrompt may resolve to: a string or nothing
Returned(texts) ==
    {[kind |-> "string", text |-> t] : t \in texts} \cup
    {[kind |-> "undefined", text |-> <<>>]}

GenerationReturns(r, results) ==
    /\ runs[r].pc = "awaiting"
    /\ \E refinedResponse \in results :
          Commit(r, refineLoop(onGenerated(runs[r], refinedResponse), indicator,
                               runs[r].idx + 1))

GenerationThrows(r) ==
    /\ runs[r].pc = "awaiting"
    /\ Commit(r, onGenerationError(runs[r], indicator))

(***************************************************************************)
(* Spec: one run of the pipeline while the user works in the settings      *)
(* panel.  Runs share nothing but the settings they read and the status    *)
(* indicator, so one run is observed.                                      *)
(***************************************************************************)
Observed == {r \in RunIds : \A q \in RunIds : r <= q}

UiMessageTexts == {<<Space, "a">>}

UiGenerated == {[kind |-> "string", text |-> <<Space, "q", Space>>]}

Next ==
    \/ Tick
    \/ onEnableChange
    \/ \E id \in Range(objKeys(instructionBlocks)) : onInstructionBlockChange(id)
    \/ \E id \in Range(objKeys(refinementSteps)) : onRefinementStepChange(id)
    \/ addNewInstructionBlock
    \/ addNewRefinementStep
    \/ \E id \in Range(objKeys(instructionBlocks)) : deleteInstructionBlock(id)
    \/ \E id \in Range(objKeys(refinementSteps)) : deleteRefinementStep(id)
    \/ \E id \in Range(objKeys(refinementSteps)) : addInstructionToStep(id)
    \/ \E p \in 1..MaxPopups : popupAdd(p)
    \/ \E p \in 1..MaxPopups : popupCancel(p)
    \/ \E r \in Observed : MessageReceived(r, UiMessageTexts)
    \/ \E r \in Observed : GenerationReturns(r, UiGenerated)
    \/ \E r \in Observed : GenerationThrows(r)

Spec == Init /\ [][Next]_vars

(***************************************************************************)
(* LiveSpec: one run while the user switches the extension on and off and  *)
(* edits and deletes steps, where every generation call eventually returns *)
(* or fails.                                                               *)
(***************************************************************************)
NextLive ==
    \/ onEnableChange
    \/ \E id \in Range(objKeys(refinementSteps)) : onRefinementStepChange(id)
    \/ \E id \in Range(objKeys(refinementSteps)) : deleteRefinementStep(id)
    \/ \E r \in Observed : MessageReceived(r, UiMessageTexts)
    \/ \E r \in Observed : GenerationReturns(r, UiGenerated)
    \/ \E r \in Observed : GenerationThrows(r)

LiveSpec ==
    /\ Init
    /\ [][NextLive]_vars
    /\ \A r \in Observed :
          WF_vars(GenerationReturns(r, UiGenerated) \/ GenerationThrows(r))

(***************************************************************************)
(* SpecPipeline: the pipeline alone, over a family of configurations, all  *)
(* message texts and all outcomes of the generation call.                  *)
(***************************************************************************)
PersistedSettings ==
    {NoSettings, EmptyObject} \cup
    {savedSettings(on, firstOn, content) :
        on \in BOOLEAN, firstOn \in BOOLEAN, content \in {<<"review">>, <<>>, <<Space>>}}

MessageTexts == {<<"a">>, <<Space, "a">>, <<Space>>}

GeneratedTexts == {<<>>, <<Space>>, <<"r">>, <<Space, "q", Space>>}

InitPipeline == \E saved \in PersistedSettings : InitFrom(saved)

NextPipeline ==
    \/ \E r \in Observed : MessageReceived(r, MessageTexts)
    \/ \E r \in Observed : RefineCalled(r, MessageTexts)
    \/ \E r \in Observed :
          GenerationReturns(r, Returned(GeneratedTexts \cup {runs[r].currentResponse}))
    \/ \E r \in Observed : GenerationThrows(r)

SpecPipeline == InitPipeline /\ [][NextPipeline]_vars

(***************************************************************************)
(* SpecLoad: the pipeline after a load of anything the host may have kept  *)
(* under the extension's key: nothing, an empty object, a full object, an  *)
(* object with only some of the fields, an object whose lists were emptied.*)
(***************************************************************************)
LoadableSettings ==
    PersistedSettings \cup {partialSettings, emptiedSettings(TRUE), emptiedSettings(FALSE)}

InitLoad == \E saved \in LoadableSettings : InitFrom(saved)

SpecLoad == InitLoad /\ [][NextPipeline]_vars

(***************************************************************************)
(* SpecOverlap: several message-received events, each starting a run of    *)
(* its own; a later one may arrive while an earlier run still awaits its   *)
(* generation call, or after it returned.  The configuration is one of the *)
(* family and is not edited.                                               *)
(***************************************************************************)
NextOverlap ==
    \/ \E r \in RunIds : MessageReceived(r, UiMessageTexts)
    \/ \E r \in RunIds : GenerationReturns(r, UiGenerated)
    \/ \E r \in RunIds : GenerationThrows(r)

SpecOverlap == InitPipeline /\ [][NextOverlap]_vars

(***************************************************************************)
(* Reading a recorded generation call.                                     *)
(***************************************************************************)
\* the text after "Original response:" in a prompt
embeddedResponse(prompt) ==
    LET at == CHOOSE i \in 1..Len(prompt) :
                  /\ prompt[i] = OriginalHead
                  /\ \A j \in (i + 1)..Len(prompt) : prompt[j] # OriginalHead
    IN SubSeq(prompt, at + 1, Len(prompt))

\* the instructions between the two halves of the system message
embeddedInstructions(prompt) ==
    LET to == CHOOSE i \in 1..Len(prompt) :
                  /\ prompt[i] = SystemTail
                  /\ \A j \in 1..(i - 1) : prompt[j] # SystemTail
    IN SubSeq(prompt, 2, to - 1)

\* refineResponse was entered with the master switch on
Ran(run) == run.pc # "idle" /\ run.masterAtStart

\* entry i of the run, as configured when the run started, is one that calls
Executable(run, i) == run.plan[i].enabled /\ run.plan[i].instructions # <<>>

CalledSteps(run) == {run.calls[n].idx : n \in 1..Len(run.calls)}

\* the working text a step leaves behind, as the specification words it
LeftBy(before, outcome) ==
    IF outcome.kind = "string" /\ trim(outcome.text) # <<>>
    THEN trim(outcome.text)
    ELSE before

RECURSIVE LeftByAll(_, _)
LeftByAll(before, outcomes) ==
    IF outcomes = <<>> THEN before
    ELSE LeftByAll(LeftBy(before, Head(outcomes)), Tail(outcomes))

(***************************************************************************)
(* C1.  A message-received event or a refineResponse call that arrives     *)
(* while the master switch is off ends at once, gives back the input text  *)
(* unchanged and makes no generation call.                                 *)
(***************************************************************************)
C1_DisabledIsIdentity ==
    \A r \in RunIds :
        (runs[r].pc # "idle" /\ ~runs[r].masterAtStart) =>
            /\ runs[r].pc = "done"
            /\ runs[r].calls = <<>>
            /\ runs[r].kind = "event" => runs[r].message = runs[r].input
            /\ runs[r].kind = "direct" => runs[r].result = runs[r].input

C1_Witness ==
    \E r \in RunIds :
        /\ runs[r].pc = "done" /\ ~runs[r].masterAtStart
        /\ runs[r].kind = "direct" /\ runs[r].result = <<Space, "a">>
        /\ \E i \in 1..Len(refinementSteps) :
              /\ heap[refinementSteps[i][2]].enabled
              /\ combineInstructions(heap[refinementSteps[i][2]], instructionBlocks) # <<>>

(***************************************************************************)
(* C2.  Steps are chained and strictly sequential: the first prompt embeds *)
(* the input, the prompt of every later call embeds the working text left  *)
(* by the call before it (the trimmed text that call returned, when that   *)
(* is non-empty), and a call is started only when every earlier call of    *)
(* the run has returned or failed.                                         *)
(***************************************************************************)
C2_PromptsAreChained ==
    \A r \in RunIds :
        LET run == runs[r] IN
        /\ Len(run.calls) - Len(run.outcomes) = (IF run.pc = "awaiting" THEN 1 ELSE 0)
        /\ \A n \in 1..Len(run.calls) :
              embeddedResponse(run.calls[n].prompt) =
                 IF n = 1 THEN run.input
                 ELSE LeftBy(embeddedResponse(run.calls[n - 1].prompt), run.outcomes[n - 1])

C2_Witness ==
    \E r \in RunIds :
        /\ Len(runs[r].calls) = 2
        /\ runs[r].outcomes[1] = [kind |-> "string", text |-> <<Space, "q", Space>>]
        /\ embeddedResponse(runs[r].calls[2].prompt) = <<"q">>
        /\ runs[r].input = <<"a">>

(***************************************************************************)
(* C3.  A generation call that throws leaves the working text as it was,   *)
(* the later steps still run, on that text, and refineResponse returns a   *)
(* value: every step that was to call is called, and when every call       *)
(* failed the input text is returned.                                      *)
(***************************************************************************)
C3_FailureDoesNotEscape ==
    \A r \in RunIds :
        LET run == runs[r]
            failed(n) == run.outcomes[n].kind = "error"
        IN /\ run.pc # "threw"
           /\ \A n \in 1..Len(run.outcomes) :
                 failed(n) =>
                    IF n < Len(run.calls)
                    THEN embeddedResponse(run.calls[n + 1].prompt) =
                            embeddedResponse(run.calls[n].prompt)
                    ELSE run.currentResponse = embeddedResponse(run.calls[n].prompt)
           /\ (Ran(run) /\ run.pc = "done") =>
                 /\ CalledSteps(run) = {i \in 1..Len(run.entries) : Executable(run, i)}
                 /\ (\A n \in 1..Len(run.outcomes) : failed(n)) => run.result = run.input

C3_Witness ==
    \E r \in RunIds :
        /\ runs[r].pc = "done"
        /\ Len(runs[r].calls) = 2
        /\ runs[r].outcomes[1].kind = "error"
        /\ runs[r].outcomes[2].kind = "error"
        /\ runs[r].result = <<"a">>

(***************************************************************************)
(* C4.  The working text after a call is the returned text trimmed when    *)
(* that is non-empty and is unchanged when the call returned an empty or   *)
(* blank string or nothing; refineResponse returns the working text after  *)
(* the last step.                                                          *)
(***************************************************************************)
C4_TrimmedResultReplaces ==
    \A r \in RunIds :
        LET run == runs[r] IN
        Ran(run) =>
            /\ run.currentResponse = LeftByAll(run.input, run.outcomes)
            /\ run.pc = "done" => run.result = run.currentResponse

C4_Witness ==
    \E r \in RunIds :
        /\ runs[r].pc = "done"
        /\ runs[r].outcomes = << [kind |-> "string", text |-> <<"r">>],
                                 [kind |-> "undefined", text |-> <<>>] >>
        /\ runs[r].input = <<Space>>
        /\ runs[r].result = <<"r">>

(***************************************************************************)
(* C5.  Idempotence, as claimed: when every generation call of a run       *)
(* returned exactly the text its prompt embedded, refineResponse returns   *)
(* the input text.                                                         *)
(***************************************************************************)
EchoedEveryCall(run) ==
    /\ Len(run.outcomes) = Len(run.calls)
    /\ \A n \in 1..Len(run.calls) :
          run.outcomes[n] = [kind |-> "string",
                             text |-> embeddedResponse(run.calls[n].prompt)]

C5_EchoIsIdentity ==
    \A r \in RunIds :
        (Ran(runs[r]) /\ runs[r].pc = "done" /\ EchoedEveryCall(runs[r])) =>
            runs[r].result = runs[r].input

(***************************************************************************)
(* C6.  Steps are stored in insertion order (an edit keeps a step's place, *)
(* an added step is last), the generation calls of a run follow that       *)
(* order, whatever the labels, a disabled step is never called, and with   *)
(* no step enabled the input is returned without any call.                 *)
(***************************************************************************)
StoredInInsertionOrder ==
    \A i, j \in 1..Len(refinementSteps) :
        i < j => insertedAt[refinementSteps[i][1]] < insertedAt[refinementSteps[j][1]]

C6_CallsFollowStoreOrder ==
    /\ StoredInInsertionOrder
    /\ \A r \in RunIds :
          LET run == runs[r] IN
          /\ \A m, n \in 1..Len(run.calls) :
                m < n => run.serials[run.calls[m].stepId] < run.serials[run.calls[n].stepId]
          /\ \A n \in 1..Len(run.calls) : run.plan[run.calls[n].idx].enabled
          /\ (Ran(run) /\ run.pc = "done" /\
               \A i \in 1..Len(run.plan) : ~run.plan[i].enabled) =>
                 run.calls = <<>> /\ run.result = run.input

C6_Witness ==
    \E r \in RunIds :
        /\ runs[r].pc = "done"
        /\ Len(runs[r].entries) = 3
        /\ heap[runs[r].entries[1][2]].label = "Zzz"
        /\ Len(runs[r].calls) = 2
        /\ runs[r].calls[1].stepId = "cohesion_check"
        /\ runs[r].calls[2].stepId = "improve_detail"

(***************************************************************************)
(* C7.  As claimed: no generation call is made for a step whose combined   *)
(* instruction text is empty or blank.                                     *)
(***************************************************************************)
C7_BlankInstructionsSkipped ==
    \A r \in RunIds :
        \A n \in 1..Len(runs[r].calls) :
            trim(embeddedInstructions(runs[r].calls[n].prompt)) # <<>>

(***************************************************************************)
(* C8.  As claimed: a run uses the configuration present when it started;  *)
(* every call carries the instruction text its step had at that moment,    *)
(* and the steps called are the ones that were to call at that moment.     *)
(***************************************************************************)
C8_ConfigurationReadOnce ==
    \A r \in RunIds :
        LET run == runs[r] IN
        /\ \A n \in 1..Len(run.calls) :
              embeddedInstructions(run.calls[n].prompt) =
                 run.plan[run.calls[n].idx].instructions
        /\ (Ran(run) /\ run.pc = "done") =>
              CalledSteps(run) = {i \in 1..Len(run.entries) : Executable(run, i)}

(***************************************************************************)
(* C9.  A run that is waiting for a generation call eventually returns,    *)
(* given that every call returns or fails, and when it returns its loop    *)
(* has gone through every entry and every call it made has been answered:  *)
(* switching the extension off or editing and deleting steps meanwhile     *)
(* does not end it early.                                                  *)
(***************************************************************************)
C9_RunCompletes ==
    /\ \A r \in Observed : (runs[r].pc = "awaiting") ~> (runs[r].pc = "done")
    /\ [](\A r \in RunIds :
            (Ran(runs[r]) /\ runs[r].pc = "done") =>
                /\ runs[r].idx = Len(runs[r].entries) + 1
                /\ Len(runs[r].outcomes) = Len(runs[r].calls))

C9_Witness ==
    \E r \in RunIds :
        /\ runs[r].pc = "done"
        /\ runs[r].masterAtStart /\ ~enabled
        /\ runs[r].uiAtStart < runs[r].uiAtEnd /\ uiEvents = runs[r].uiAtEnd
        /\ Len(runs[r].calls) = 2

(***************************************************************************)
(* C10.  When the handler has finished, the payload holds what             *)
(* refineResponse returned for the text it carried; it still holds that    *)
(* text itself when the extension was disabled.                            *)
(***************************************************************************)
C10_PayloadIsResult ==
    \A r \in RunIds :
        (runs[r].kind = "event" /\ runs[r].pc = "done") =>
            runs[r].message = (IF runs[r].skipped THEN runs[r].input ELSE runs[r].result)

C10_Witness ==
    \E r \in RunIds :
        /\ runs[r].kind = "event" /\ runs[r].pc = "done"
        /\ runs[r].input = <<"a">>
        /\ runs[r].message = <<"q">>

(***************************************************************************)
(* Claims about the load.                                                  *)
(***************************************************************************)
\* the stored steps with their step objects, as JSON would write them
storedSteps ==
    IF refinementSteps = Undefined THEN Undefined
    ELSE [i \in 1..Len(refinementSteps) |->
             <<refinementSteps[i][1], heap[refinementSteps[i][2]]>>]

\* exactly the two built-in steps, in their order, both enabled
TwoDefaultSteps ==
    /\ storedSteps # Undefined
    /\ [i \in 1..Len(storedSteps) |-> storedSteps[i][2].label]
          = <<"Cohesion Check", "Improve Detail">>
    /\ \A i \in 1..Len(storedSteps) : storedSteps[i][2].enabled

NothingSaved == persisted \in {NoSettings, EmptyObject}

\* C11: when nothing (or an empty object) was saved, the loaded configuration
\* has the master switch on and exactly the steps "Cohesion Check" and
\* "Improve Detail", in this order, both enabled; a non-empty saved object is
\* what the extension works on, field for field.
C11_DefaultsIffNothingSaved ==
    IF NothingSaved
    THEN enabled /\ TwoDefaultSteps
    ELSE /\ enabled = persisted.enabled
         /\ instructionBlocks = field(persisted, "instructionBlocks")
         /\ storedSteps = field(persisted, "refinementSteps")

\* a run over the defaults that were substituted for an empty saved object,
\* and the configurations of the other branch exist too
C11_Witness ==
    /\ persisted = EmptyObject
    /\ \E r \in RunIds :
          /\ runs[r].pc = "done"
          /\ [n \in 1..Len(runs[r].calls) |-> runs[r].calls[n].stepId]
                = <<"cohesion_check", "improve_detail">>

\* a saved object from which no step can be used
Unusable(saved) ==
    \/ saved \in {NoSettings, EmptyObject}
    \/ field(saved, "refinementSteps") \in {Undefined, <<>>}

\* C12: a saved object that is empty, or carries only some of the fields, or
\* whose step collection is missing or empty, is replaced by the two built-in
\* steps, and after every load both collections are well-formed.
C12_UnusableReplacedByDefaults ==
    /\ Unusable(persisted) => TwoDefaultSteps
    /\ instructionBlocks # Undefined
    /\ refinementSteps # Undefined

(***************************************************************************)
(* C13.  Calls per run.                                                    *)
(***************************************************************************)
\* the entries of a run that call: enabled, with non-empty instruction text
ExecutableSteps(run) == {i \in 1..Len(run.plan) : Executable(run, i)}

\* C13: a run with the master switch on makes exactly one generation call for
\* each enabled step with non-empty instruction text and none for any other
\* step (a failed step is not called again), and nothing is reused between
\* runs: two runs with the same input and configuration each make all the
\* calls.
C13_OneCallPerExecutableStep ==
    /\ \A r \in RunIds :
          LET run == runs[r] IN
          /\ \A m, n \in 1..Len(run.calls) : m < n => run.calls[m].idx < run.calls[n].idx
          /\ CalledSteps(run) \subseteq ExecutableSteps(run)
          /\ (Ran(run) /\ run.pc = "done") =>
                /\ CalledSteps(run) = ExecutableSteps(run)
                /\ Len(run.calls) = Cardinality(ExecutableSteps(run))
                /\ Len(run.outcomes) = Len(run.calls)
    /\ \A r, q \in RunIds :
          (/\ Ran(runs[r]) /\ runs[r].pc = "done"
           /\ Ran(runs[q]) /\ runs[q].pc = "done"
           /\ runs[r].input = runs[q].input /\ runs[r].plan = runs[q].plan) =>
             Len(runs[r].calls) = Len(runs[q].calls)

\* two finished runs over the same input and configuration, two calls each,
\* one of them with a failed first call
C13_Witness ==
    \E r, q \in RunIds :
        /\ r # q
        /\ runs[r].pc = "done" /\ runs[q].pc = "done"
        /\ Len(runs[r].calls) = 2 /\ Len(runs[q].calls) = 2
        /\ runs[r].outcomes[1].kind = "error"
        /\ runs[q].outcomes[1].kind = "string"

(***************************************************************************)
(* C14.  The instruction text of a step.                                   *)
(***************************************************************************)
\* what the references of a step contribute, one after the other
RECURSIVE contributions(_, _)
contributions(refs, blocks) ==
    IF refs = <<>> THEN <<>>
    ELSE LET ref == Head(refs)
             counts == /\ ref.enabled
                       /\ \E i \in 1..Len(blocks) : blocks[i][1] = ref.id
                       /\ \A i \in 1..Len(blocks) :
                             blocks[i][1] = ref.id => blocks[i][2].enabled
         IN (IF counts
             THEN <<(CHOOSE b \in Range(blocks) : b[1] = ref.id)[2].content>>
             ELSE <<>>) \o contributions(Tail(refs), blocks)

Dangling(step) == \E i \in 1..Len(step.instructions) :
                      ~objHas(instructionBlocks, step.instructions[i].id)

\* C14: the instruction text a generation call carries is made, in the order
\* the step lists its references, of the contents of exactly the blocks whose
\* reference is enabled, which exist and which are enabled themselves, one
\* blank line between two contents; a reference to a block that is gone adds
\* nothing and raises nothing.
C14_TextIsSelectedContents ==
    [][\A r \in RunIds :
          /\ runs'[r].pc # "threw"
          /\ Len(runs'[r].calls) > Len(runs[r].calls) =>
                LET call == runs'[r].calls[Len(runs'[r].calls)]
                    step == heap[runs'[r].entries[call.idx][2]]
                IN embeddedInstructions(call.prompt) =
                      join(contributions(step.instructions, instructionBlocks),
                           <<Separator>>)]_vars

\* a call was made for a step that holds a reference to a deleted block next
\* to a reference that counts
C14_Witness ==
    \E r \in RunIds :
        /\ runs[r].pc = "awaiting"
        /\ Dangling(heap[runs[r].entries[runs[r].idx][2]])
        /\ uiEvents = runs[r].uiAtStart

(***************************************************************************)
(* C15.  As claimed: whatever the user does in the panel and in the        *)
(* popups, every reference of every stored step names a block that exists, *)
(* and no step lists a block twice.                                        *)
(***************************************************************************)
C15_ReferentialIntegrity ==
    \A s \in 1..Len(refinementSteps) :
        LET refs == heap[refinementSteps[s][2]].instructions IN
        /\ \A i \in 1..Len(refs) : objHas(instructionBlocks, refs[i].id)
        /\ \A i, j \in 1..Len(refs) : refs[i].id = refs[j].id => i = j

(***************************************************************************)
(* C16.  As claimed: every addNewRefinementStep leaves one step more than  *)
(* there was, with every step stored before at its place and as it was,    *)
(* also when two invocations read the same clock value.                    *)
(***************************************************************************)
C16_AddStepAppends ==
    [][addNewRefinementStep =>
          /\ Len(refinementSteps') = Len(refinementSteps) + 1
          /\ \A i \in 1..Len(refinementSteps) :
                /\ refinementSteps'[i][1] = refinementSteps[i][1]
                /\ heap'[refinementSteps'[i][2]] = heap[refinementSteps[i][2]]]_vars

(***************************************************************************)
(* C17.  Notifications.                                                    *)
(***************************************************************************)
toastsOf(run, kind) == SelectSeq(run.toasts, LAMBDA t : t.kind = kind)

\* the calls of the run that have failed so far, in order
failedCalls(run) ==
    LET failed(call) == \E n \in 1..Len(run.outcomes) :
                            run.calls[n] = call /\ run.outcomes[n].kind = "error"
    IN SelectSeq(run.calls, failed)

\* C17: a run raises one error notification per failed generation call, in
\* the order of the failures, each naming the step whose call failed, and
\* none for a step whose call succeeded or that was skipped; it raises the
\* notification 'Response has been refined' when it returns, once, exactly
\* when the text it returns differs from the text it was given.
C17_NotificationsMatchOutcomes ==
    \A r \in RunIds :
        LET run == runs[r]
            errors == toastsOf(run, "error")
            successes == toastsOf(run, "success")
            failures == failedCalls(run)
        IN
        /\ Len(errors) = Len(failures)
        /\ \A k \in 1..Len(errors) :
              errors[k].text = heap[run.entries[failures[k].idx][2]].label
        /\ Len(run.toasts) = Len(errors) + Len(successes)
        /\ IF run.pc = "done" /\ ~run.skipped /\ run.result # run.input
           THEN successes = <<[kind |-> "success", text |-> "Response has been refined"]>>
           ELSE successes = <<>>

\* a run whose first call failed and whose second call changed the text:
\* one error notification for the first step, then the success notification
C17_Witness ==
    \E r \in RunIds :
        /\ runs[r].pc = "done"
        /\ Len(runs[r].calls) = 2
        /\ runs[r].outcomes[1].kind = "error"
        /\ runs[r].outcomes[2].kind = "string"
        /\ Len(runs[r].toasts) = 2
        /\ runs[r].toasts[1].kind = "error"
        /\ runs[r].toasts[2].kind = "success"

(***************************************************************************)
(* C18.  The progress counter.                                             *)
(***************************************************************************)
\* C18: at every point of a run 0 <= currentStep <= stepCount, where
\* stepCount is the number of steps that were enabled when the run started;
\* the indicator never shows a step number outside 1..stepCount; and
\* currentStep = stepCount when the run returns, whatever steps the user
\* enables, disables, adds or deletes while the run is suspended.
C18_CounterWithinTotal ==
    /\ \A r \in RunIds :
          LET run == runs[r] IN
          /\ 0 <= run.currentStep /\ run.currentStep <= run.stepCount
          /\ Ran(run) =>
                run.stepCount = Cardinality({i \in 1..Len(run.plan) : run.plan[i].enabled})
          /\ run.pc = "awaiting" => run.currentStep >= 1
          /\ run.pc = "done" => run.currentStep = run.stepCount
    /\ indicator.visible =>
          /\ 1 <= indicator.text[2] /\ indicator.text[2] <= indicator.text[3]
          /\ \E r \in RunIds : indicator.text[3] = runs[r].stepCount

\* a run that counted 2 of 2 and returned, after the user had, while it was
\* suspended, changed the number of stored steps or disabled one of them
C18_Witness ==
    \E r \in RunIds :
        /\ runs[r].pc = "done"
        /\ runs[r].stepCount = 2 /\ runs[r].currentStep = 2
        /\ runs[r].uiAtStart < runs[r].uiAtEnd
        /\ runs[r].uiAtEnd = uiEvents
        /\ countEnabled(refinementSteps, heap) # 2

(***************************************************************************)
(* C19.  As claimed: with runs that overlap, the status indicator is       *)
(* visible whenever some run is suspended at a generation call, and hidden *)
(* when no run is in progress.                                             *)
(***************************************************************************)
C19_IndicatorShownWhileAnyRunWaits ==
    indicator.visible <=> \E r \in RunIds : runs[r].pc = "awaiting"

====
